---- MODULE Spec2Model ----
(***************************************************************************)
(* A model of ordinal-comparator: the command line entry point (cli.py),   *)
(* the construction of IndexerComparator, its run loop over a gevent pool, *)
(* the per-block task _process_block with _fetch_with_retry, the SIGINT    *)
(* handler and the graceful shutdown.                                      *)
(*                                                                         *)
(* Scheduling follows gevent: greenlets are cooperative, so a task only    *)
(* moves while the main greenlet is suspended (in thread_pool.spawn on a   *)
(* full pool, in gevent.joinall, or in thread_pool.join), and each task    *)
(* step runs from one suspension point (a network call or a sleep) to the  *)
(* next.  A Python signal handler runs between two bytecodes of whatever   *)
(* greenlet is executing, so SIGINT may be handled between any two steps.  *)
(***************************************************************************)
EXTENDS Integers, Sequences, FiniteSets, TLC

\* ---------------------------------------------------------------- bounds

\* The longest event list of a block entry of a receipt payload.
MaxEvents == 2
\* Largest number of heights a run covers.
MaxBlocks == 2
\* Largest value of --threads explored.
MaxThreads == 2

\* ------------------------------------------------------ program constants
\* _fetch_with_retry(..., max_retries: int = 5)
max_retries == 5
\* main(): return 0 / return 130 / return 1
EXIT_OK == 0
EXIT_SIGINT == 130
EXIT_FATAL == 1
\* Blockchain.get_first_brc20_height / get_first_inscription_height
BITCOIN_FIRST_BRC20 == 779832
BITCOIN_FIRST_INSCRIPTION == 767430
FRACTAL_FIRST_BRC20 == 21000
FRACTAL_FIRST_INSCRIPTION == 21000

Blockchains == {"BITCOIN", "FRACTAL"}
Protocols == {"ORDINAL", "BRC20"}
\* The (blockchain, protocol) pairs whose runs are explored.
RunPairs == {<<"BITCOIN", "ORDINAL">>, <<"FRACTAL", "BRC20">>}
\* Every pair the command line accepts; the construction is explored for all.
AllPairs == Blockchains \X Protocols

\* Optional[int]: None is the empty sequence, a value v is <<v>>.
None == <<>>
Some(v) == <<v>>

\* An exception object raised by a fetch is identified by the call that raised
\* it: the operation and the number of that call within its retry loop.
NoError == [op |-> "None", attempt |-> 0]
FetchError(op, k) == [op |-> op, attempt |-> k]
\* An exception raised by compare_block_receipts.
CompareError == [op |-> "compare", attempt |-> 0]
\* gevent's GreenletExit, thrown into a killed greenlet.
GreenletExit == [op |-> "GreenletExit", attempt |-> 0]

\* Receipt payloads as the task sees them: "empty" is the falsy payload ({}),
\* "p" and "q" are two different non-empty payloads.
PrimaryPayloads == {"empty", "p"}
SecondaryPayloads == {"empty", "p", "q"}

VARIABLES
  pc,                  \* where the main greenlet is
  exit_code,           \* {} until main returns, then {code}
  main_exc,            \* the exception that reached main's handlers
  args,                \* parsed command line: start_block, end_block, threads
  node_info,           \* what the two endpoints answer to /api/v1/node/info
  blockchain,
  protocol,
  start_block,
  end_block,
  shutdown_event,      \* gevent Event: self.shutdown_event
  is_shutdown_handled, \* self._is_shutdown_handled
  size,                \* thread_pool.size
  pool,                \* heights whose greenlet is held by thread_pool
  active_tasks,        \* run's list of spawned tasks, by height
  height,              \* run's loop variable
  progress,            \* the tqdm bar: its counter n and its disable flag
  task,                \* per height, the state of its _process_block greenlet
  log,                 \* how often each counted message was logged
  sigint_pending,      \* a SIGINT was delivered and not yet handled
  call                 \* one call of comparator.compare_block_receipts

vars == <<pc, exit_code, main_exc, args, node_info, blockchain, protocol,
          start_block, end_block, shutdown_event, is_shutdown_handled, size,
          pool, active_tasks, height, progress, task, log, sigint_pending,
          call>>

\* The program's own state: everything but the pending-signal flag.
progvars == <<pc, exit_code, main_exc, args, node_info, blockchain, protocol,
              start_block, end_block, shutdown_event, is_shutdown_handled,
              size, pool, active_tasks, height, progress, task, log>>

\* --------------------------------------------------------- construction

get_first_brc20_height(b) ==
  IF b = "BITCOIN" THEN BITCOIN_FIRST_BRC20 ELSE FRACTAL_FIRST_BRC20

get_first_inscription_height(b) ==
  IF b = "BITCOIN" THEN BITCOIN_FIRST_INSCRIPTION ELSE FRACTAL_FIRST_INSCRIPTION

\* APIClient.get_node_info: a reported network "mainnet" is renamed "bitcoin".
get_node_info(raw) ==
  [network |-> IF raw.network = "mainnet" THEN "bitcoin" ELSE raw.network,
   ordBlockHeight |-> raw.ordBlockHeight]

\* blockchain.name.lower()
expected_network(b) == IF b = "BITCOIN" THEN "bitcoin" ELSE "fractal"

\* TRUE when _validate_network_compatibility raises ValueError.
NetworkMismatchPrimaryOnly(b, primary_info, secondary_info) ==
  primary_info.network # expected_network(b)

NetworkMismatch(b, primary_info, secondary_info) ==
  \/ primary_info.network # expected_network(b)
  \/ secondary_info.network # expected_network(b)

determine_start_block_ignores_protocol(b, p, user_start) ==
  IF user_start # None THEN user_start[1]
  ELSE get_first_inscription_height(b)

determine_start_block(b, p, user_start) ==
  IF user_start # None THEN user_start[1]
  ELSE IF p = "ORDINAL" THEN get_first_inscription_height(b)
  ELSE get_first_brc20_height(b)

Min(a, b) == IF a < b THEN a ELSE b

determine_end_block_user_wins(user_end, min_latest_block) ==
  IF user_end # None THEN user_end[1] ELSE min_latest_block

determine_end_block(user_end, min_latest_block) ==
  IF user_end # None /\ user_end[1] < min_latest_block
  THEN user_end[1]
  ELSE min_latest_block

\* The activation height of the pair, around which the explored inputs lie.
FirstHeight(b, p) == determine_start_block(b, p, None)

\* The state of one _process_block greenlet: where it is (st), the locals of
\* the retry loop it is in (retry_count, last_error) with the calls it made and
\* the sleeps it took in that loop, what it has done so far (hash_calls,
\* fetched, compared, logged), and how it ended (outcome, raised).
\* block_hash is the local of that name and request the receipt request in
\* flight or being retried (its endpoint and the hash in its URL).
NoRequest == [endpoint |-> "none", block_hash |-> <<>>]

NewTask ==
  [st |-> "unspawned", outcome |-> "none", hash_calls |-> 0, retry_count |-> 0,
   last_error |-> NoError, calls |-> 0, sleeps |-> <<>>,
   block_hash |-> <<>>, request |-> NoRequest,
   primary_data |-> "unset", fetched |-> {}, compared |-> FALSE,
   logged |-> {}, raised |-> NoError, kill_pending |-> FALSE]

\* The hash the primary endpoint returns for height h.
BlockHash(h) == <<"hash", h>>

\* No call of compare_block_receipts is being followed.
NoResult == [matched |-> FALSE, discrepancies |-> <<>>]

NoCall ==
  [stage |-> "none", heap |-> <<>>, passed |-> <<>>,
   primary_data |-> "none", secondary_data |-> "none", result |-> NoResult]

ConsumedArgs == [start_block |-> None, end_block |-> None, threads |-> 0]
ConsumedInfo == [network |-> "", ordBlockHeight |-> 0]

\* The state when main() has parsed its arguments, for a (blockchain, protocol)
\* pair among pairs.
InitFor(pairs) ==
  /\ pc = "construct"
  /\ exit_code = {}
  /\ main_exc = "None"
  /\ \E pair \in pairs : blockchain = pair[1] /\ protocol = pair[2]
  /\ \E us \in {None, Some(FirstHeight(blockchain, protocol)),
                Some(FirstHeight(blockchain, protocol) + 1)},
        ue \in {None, Some(FirstHeight(blockchain, protocol)),
                Some(FirstHeight(blockchain, protocol) + MaxBlocks)},
        th \in 1..MaxThreads :
       args = [start_block |-> us, end_block |-> ue, threads |-> th]
  /\ \E pn \in {"mainnet", "bitcoin", "fractal"},
        sn \in {"mainnet", "bitcoin", "fractal"},
        ph \in (FirstHeight(blockchain, protocol) - 1) ..
               (FirstHeight(blockchain, protocol) + MaxBlocks - 1),
        sh \in (FirstHeight(blockchain, protocol) - 1) ..
               (FirstHeight(blockchain, protocol) + MaxBlocks - 1) :
       node_info = [primary |-> [network |-> pn, ordBlockHeight |-> ph],
                    secondary |-> [network |-> sn, ordBlockHeight |-> sh]]
  /\ start_block = 0
  /\ end_block = 0
  /\ shutdown_event = FALSE
  /\ is_shutdown_handled = FALSE
  /\ size = 0
  /\ pool = {}
  /\ active_tasks = <<>>
  /\ height = 0
  /\ progress = [n |-> 0, disable |-> TRUE]
  /\ task = <<>>
  /\ log = [interrupt |-> 0, completion |-> 0, blocks_processed |-> 0]
  /\ sigint_pending = FALSE
  /\ call = NoCall

Init == InitFor(RunPairs)

InitAllPairs == InitFor(AllPairs)

\* ------------------------------------------------------------ the signal

\* The environment delivers SIGINT (the C-level handler records it).
SIGINT ==
  /\ pc # "exited"
  /\ ~sigint_pending
  /\ sigint_pending' = TRUE
  /\ UNCHANGED progvars
  /\ UNCHANGED call

\* Before run() installs its handler Python's default handler is in place: the
\* signal surfaces as KeyboardInterrupt in main, which returns 130.
default_int_handler ==
  /\ pc \in {"construct", "constructed"}
  /\ sigint_pending
  /\ sigint_pending' = FALSE
  /\ main_exc' = "KeyboardInterrupt"
  /\ exit_code' = {EXIT_SIGINT}
  /\ pc' = "exited"
  /\ UNCHANGED <<args, node_info, blockchain, protocol, start_block, end_block,
                 shutdown_event, is_shutdown_handled, size, pool, active_tasks,
                 height, progress, task, log,
                 call>>

\* run.signal_handler, the body after the signal is taken.
signal_handler_unguarded ==
  /\ is_shutdown_handled' = TRUE
  /\ log' = [log EXCEPT !.interrupt = @ + 1]
  /\ shutdown_event' = TRUE

signal_handler ==
  IF is_shutdown_handled
  THEN UNCHANGED <<is_shutdown_handled, log, shutdown_event>>
  ELSE /\ is_shutdown_handled' = TRUE
       /\ log' = [log EXCEPT !.interrupt = @ + 1]
       /\ shutdown_event' = TRUE

\* SIGINT handled while run() is in progress: the installed handler runs.
HandleSIGINT ==
  /\ pc \notin {"construct", "constructed", "exited"}
  /\ sigint_pending
  /\ sigint_pending' = FALSE
  /\ signal_handler
  /\ UNCHANGED <<pc, exit_code, main_exc, args, node_info, blockchain, protocol,
                 start_block, end_block, size, pool, active_tasks, height,
                 progress, task,
                 call>>

\* ------------------------------------------------- main: construct and run

\* range(self.start_block, self.end_block + 1): its first value, and the value
\* it stops before.
RangeFirstSkipsOne == start_block + 1

RangeFirst == start_block

RangeStopShort == end_block

RangeStop == end_block + 1

\* if self.end_block < self.start_block: raise ValueError
RangeNeverInvalid(start, end) == FALSE

RangeInvalid(start, end) == end < start

\* IndexerComparator(...): the node info of both endpoints is validated and the
\* block range resolved and validated. A ValueError of the constructor reaches
\* main's "except Exception", which returns 1.
Construct ==
  /\ pc = "construct"
  /\ LET primary_chain_info == get_node_info(node_info.primary)
         secondary_chain_info == get_node_info(node_info.secondary)
         start == determine_start_block(blockchain, protocol, args.start_block)
         min_latest_block == Min(primary_chain_info.ordBlockHeight,
                                 secondary_chain_info.ordBlockHeight)
         end == determine_end_block(args.end_block, min_latest_block)
     IN IF NetworkMismatch(blockchain, primary_chain_info, secondary_chain_info)
        THEN /\ main_exc' = "ValueError"
             /\ exit_code' = {EXIT_FATAL}
             /\ pc' = "exited"
             /\ UNCHANGED <<start_block, end_block>>
        ELSE IF RangeInvalid(start, end)
        THEN /\ main_exc' = "ValueError"
             /\ exit_code' = {EXIT_FATAL}
             /\ pc' = "exited"
             /\ start_block' = start
             /\ end_block' = end
        ELSE /\ start_block' = start
             /\ end_block' = end
             /\ pc' = "constructed"
             /\ UNCHANGED <<main_exc, exit_code>>
  /\ UNCHANGED <<args, node_info, blockchain, protocol, shutdown_event,
                 is_shutdown_handled, size, pool, active_tasks, height,
                 progress, task, log, sigint_pending,
                 call>>

\* pool.Pool(args.threads) and the start of run() up to the loop: handler
\* installed, active_tasks = [], the tqdm bar opened. The command line and
\* the node info are not used after this.
StartRun ==
  /\ pc = "constructed"
  /\ size' = args.threads
  /\ task' = [h \in start_block..end_block |-> NewTask]
  /\ progress' = [n |-> 0, disable |-> FALSE]
  /\ height' = RangeFirst
  /\ pc' = "check"
  /\ args' = ConsumedArgs
  /\ node_info' = [primary |-> ConsumedInfo, secondary |-> ConsumedInfo]
  /\ UNCHANGED <<exit_code, main_exc, blockchain, protocol, start_block,
                 end_block, shutdown_event, is_shutdown_handled, pool,
                 active_tasks, log, sigint_pending,
                 call>>

\* Loop head: the range is exhausted, or the shutdown flag is set (break), or
\* the height goes on to thread_pool.spawn. Leaving the "with" closes the bar.
LoopCheck ==
  /\ pc = "check"
  /\ IF height >= RangeStop \/ shutdown_event
     THEN /\ progress' = [progress EXCEPT !.disable = TRUE]
          /\ pc' = "joinall"
     ELSE /\ pc' = "spawn"
          /\ UNCHANGED progress
  /\ UNCHANGED <<exit_code, main_exc, args, node_info, blockchain, protocol,
                 start_block, end_block, shutdown_event, is_shutdown_handled,
                 size, pool, active_tasks, height, task, log, sigint_pending,
                 call>>

\* The pool's semaphore: Pool(size) admits a greenlet while fewer than size
\* are held.
PoolUnbounded == TRUE

PoolHasRoom == Cardinality(pool) < size

\* thread_pool.spawn on a full pool suspends the main greenlet.
SpawnBlock ==
  /\ pc = "spawn"
  /\ ~PoolHasRoom
  /\ pc' = "spawn_wait"
  /\ UNCHANGED <<exit_code, main_exc, args, node_info, blockchain, protocol,
                 start_block, end_block, shutdown_event, is_shutdown_handled,
                 size, pool, active_tasks, height, progress, task, log,
                 sigint_pending,
                 call>>

\* thread_pool.spawn(self._process_block, height, progress) and
\* active_tasks.append(task); the greenlet is scheduled, not yet started.
Spawn ==
  /\ pc \in {"spawn", "spawn_wait"}
  /\ PoolHasRoom
  /\ task' = [task EXCEPT ![height].st = "spawned"]
  /\ pool' = pool \cup {height}
  /\ active_tasks' = Append(active_tasks, height)
  /\ height' = height + 1
  /\ pc' = "check"
  /\ UNCHANGED <<exit_code, main_exc, args, node_info, blockchain, protocol,
                 start_block, end_block, shutdown_event, is_shutdown_handled,
                 size, progress, log, sigint_pending,
                 call>>

SpawnedHeights == {active_tasks[i] : i \in 1..Len(active_tasks)}

\* Greenlet.ready()
ReadyTooEarly(h) == task[h].st # "spawned"

Ready(h) == task[h].st = "done"

\* gevent.joinall(active_tasks) returns once every task is ready; then
\* _log_completion_metrics (which reports end_block - start_block + 1 blocks),
\* run returns and main returns 0.
JoinAll ==
  /\ pc = "joinall"
  /\ \A h \in SpawnedHeights : Ready(h)
  /\ log' = [log EXCEPT !.completion = @ + 1,
                        !.blocks_processed = end_block - start_block + 1]
  /\ exit_code' = {EXIT_OK}
  /\ pc' = "exited"
  /\ UNCHANGED <<main_exc, args, node_info, blockchain, protocol, start_block,
                 end_block, shutdown_event, is_shutdown_handled, size, pool,
                 active_tasks, height, progress, task, sigint_pending,
                 call>>


\* ------------------------------------------------------- graceful shutdown

\* A finished greenlet that was in state t: the locals of _process_block and
\* of its retry loop are gone; what it did and what ended it are kept, and
\* with an exception raised by a retry loop the calls and sleeps of that loop
\* (calls is 0 when the task did not end that way).
Finished(t, outcome, raised, calls) ==
  [t EXCEPT !.st = "done", !.outcome = outcome, !.raised = raised,
            !.retry_count = 0, !.last_error = NoError,
            !.calls = calls, !.sleeps = IF calls = 0 THEN <<>> ELSE @,
            !.block_hash = <<>>, !.request = NoRequest,
            !.primary_data = "unset", !.kill_pending = FALSE]

\* logging.<level>(message) by a task in state t.
Logged(t, message) == [t EXCEPT !.logged = @ \cup {message}]

\* task.kill(block=False): a greenlet that has not started is dead at once and
\* never runs; a started one gets GreenletExit at its suspension point when the
\* hub next runs its callbacks.
kill(t) ==
  IF t.st = "spawned"
  THEN Finished(t, "killed_before_start", NoError, 0)
  ELSE [t EXCEPT !.kill_pending = TRUE]

\* The loop of _perform_graceful_shutdown over active_tasks.
CancelActiveTasks ==
  [h \in DOMAIN task |->
     IF h \in SpawnedHeights /\ ~Ready(h) THEN kill(task[h]) ELSE task[h]]

\* An exception other than KeyboardInterrupt raised inside run's try block
\* (by tqdm, thread_pool.spawn or gevent.joinall): "except Exception" sets the
\* shutdown flag and runs _perform_graceful_shutdown up to thread_pool.join.
\* Leaving the "with" block on the exception closes the bar.
\* ("except KeyboardInterrupt" in run is not modelled: with signal_handler
\* installed SIGINT no longer raises KeyboardInterrupt.)
UnexpectedError ==
  /\ pc \in {"check", "spawn", "spawn_wait", "joinall"}
  /\ main_exc' = "Exception"
  /\ shutdown_event' = TRUE
  /\ progress' = [progress EXCEPT !.disable = TRUE]
  /\ task' = CancelActiveTasks
  /\ pool' = {h \in pool : CancelActiveTasks[h].st # "done"}
  /\ pc' = "drain"
  /\ UNCHANGED <<exit_code, args, node_info, blockchain, protocol, start_block,
                 end_block, is_shutdown_handled, size, active_tasks,
                 height, log, sigint_pending,
                 call>>

\* thread_pool.join(timeout=5) returns, because the pool emptied or because the
\* timeout expired; the kills queued before the join are delivered by the hub
\* before any timer fires. run re-raises and main's "except Exception"
\* returns 1.
DrainEnd ==
  /\ pc = "drain"
  /\ \A h \in pool : ~task[h].kill_pending
  /\ exit_code' = {EXIT_FATAL}
  /\ pc' = "exited"
  /\ UNCHANGED <<main_exc, args, node_info, blockchain, protocol, start_block,
                 end_block, shutdown_event, is_shutdown_handled, size, pool,
                 active_tasks, height, progress, task, log, sigint_pending,
                 call>>

\* --------------------------------------------------------------- the tasks

\* The main greenlet is suspended in the hub, so other greenlets and the hub's
\* callbacks run.
MainBlocked == pc \in {"spawn_wait", "joinall", "drain"}

\* finally: if progress and not self.shutdown_event.is_set(): progress.update(1)
\* (tqdm.update does nothing on a closed bar).
FinallyProgressWhateverTheFlag ==
  IF ~progress.disable
  THEN [progress EXCEPT !.n = @ + 1]
  ELSE progress

FinallyProgress ==
  IF ~shutdown_event /\ ~progress.disable
  THEN [progress EXCEPT !.n = @ + 1]
  ELSE progress

\* while retry_count < max_retries
LoopContinuesOffByOne(retry_count) == retry_count <= max_retries

LoopContinues(retry_count) == retry_count < max_retries

\* if retry_count < max_retries: gevent.sleep(...)
ShouldBackoff(retry_count) == retry_count < max_retries

\* What the "except" clause of the retry loop keeps as last_error.
KeepFirstError(last_error, e) == IF last_error = NoError THEN e ELSE last_error

RecordError(last_error, e) == e

\* comparator.compare_block_receipts at the level the task uses it: matched or
\* not. Both payloads falsy match; one falsy does not; else they are compared.
compare_block_receipts(primary_data, secondary_data) ==
  IF primary_data = "empty" /\ secondary_data = "empty" THEN TRUE
  ELSE IF primary_data = "empty" \/ secondary_data = "empty" THEN FALSE
  ELSE primary_data = secondary_data

TaskFrame ==
  UNCHANGED <<pc, exit_code, main_exc, args, node_info, blockchain, protocol,
              start_block, end_block, shutdown_event, is_shutdown_handled,
              size, active_tasks, height, log, sigint_pending,
              call>>

\* A greenlet that ended: the finally clause of _process_block has run, and the
\* pool's link (Pool._discard) drops the greenlet and releases the semaphore
\* before any other greenlet runs.
TaskEnds(h) ==
  /\ progress' = FinallyProgress
  /\ pool' = pool \ {h}

TaskGoesOn == UNCHANGED <<progress, pool>>

\* The greenlet starts: _is_block_eligible is True, and the task suspends in
\* primary_client.get_block_hash_by_height(height).
TaskStart(h) ==
  /\ MainBlocked
  /\ task[h].st = "spawned"
  /\ task' = [task EXCEPT ![h].st = "hash", ![h].hash_calls = @ + 1]
  /\ TaskGoesOn
  /\ TaskFrame

\* The first call of a retry loop is made: _fetch_with_retry(...) up to
\* fetch_func(), which requests the receipts of block_hash from the primary
\* or the secondary client.
EnterRetryLoopSharedBudget(t, st) ==
  [t EXCEPT !.st = st,
            !.calls = @ + 1,
            !.request = [endpoint |-> IF st = "fetch_primary" THEN "primary"
                                      ELSE "secondary",
                         block_hash |-> t.block_hash]]

EnterRetryLoop(t, st) ==
  [t EXCEPT !.st = st, !.retry_count = 0, !.last_error = NoError,
            !.calls = 1, !.sleeps = <<>>,
            !.request = [endpoint |-> IF st = "fetch_primary" THEN "primary"
                                      ELSE "secondary",
                         block_hash |-> t.block_hash]]

\* The handler of the hash lookup: logging.warning and return.
HashLookupFailedGoesOn(h) ==
  /\ task' = [task EXCEPT ![h] =
                EnterRetryLoop(Logged(task[h], "hash_failed"), "fetch_primary")]
  /\ TaskGoesOn
  /\ TaskFrame

HashLookupFailed(h) ==
  /\ task' = [task EXCEPT ![h] =
                Finished(Logged(task[h], "hash_failed"), "hash_failed", NoError, 0)]
  /\ TaskEnds(h)
  /\ TaskFrame

\* The hash lookup returns: on success the primary fetch starts (first call of
\* its retry loop); on failure the task logs a warning and returns.
HashReply(h) ==
  /\ MainBlocked
  /\ task[h].st = "hash"
  /\ ~task[h].kill_pending
  /\ \/ /\ task' = [task EXCEPT ![h] =
                      EnterRetryLoop([task[h] EXCEPT !.block_hash = BlockHash(h)],
                                     "fetch_primary")]
        /\ TaskGoesOn
        /\ TaskFrame
     \/ HashLookupFailed(h)

\* An exception e reaches the "except Exception" of _process_block in task h,
\* whose state is t: the error is logged, the finally clause runs and the
\* greenlet ends. Nothing outside the task changes.
TaskRaisesAndStopsTheRun(h, t, e) ==
  /\ task' = [task EXCEPT ![h] =
                Finished(Logged(t, "error"), "error", e,
                         IF e = t.last_error THEN t.calls ELSE 0)]
  /\ TaskEnds(h)
  /\ shutdown_event' = TRUE
  /\ UNCHANGED <<pc, exit_code, main_exc, args, node_info, blockchain, protocol,
                 start_block, end_block, is_shutdown_handled, size,
                 active_tasks, height, log, sigint_pending,
                 call>>

\* The same handler, were it to go on with the data it has: the comparison is
\* run on what was fetched.
TaskRaisesButCompares(h, t, e) ==
  /\ task' = [task EXCEPT ![h] =
                Finished(Logged([t EXCEPT !.compared = TRUE], "discrepancy"),
                         "discrepancy", NoError, 0)]
  /\ TaskEnds(h)
  /\ TaskFrame

TaskRaises(h, t, e) ==
  /\ task' = [task EXCEPT ![h] =
                Finished(Logged(t, "error"), "error", e,
                         IF e = t.last_error THEN t.calls ELSE 0)]
  /\ TaskEnds(h)
  /\ TaskFrame

\* fetch_func() returned data inside _fetch_with_retry: after the primary
\* fetch the secondary one starts; after the secondary fetch the receipts are
\* compared and the verdict logged, or the comparison raises (a payload that
\* normalization or the diff cannot handle).
FetchSuccess(h) ==
  /\ MainBlocked
  /\ ~task[h].kill_pending
  /\ \/ /\ task[h].st = "fetch_primary"
        /\ \E data \in PrimaryPayloads :
             task' = [task EXCEPT ![h] =
                        EnterRetryLoop([task[h] EXCEPT !.primary_data = data,
                                                       !.fetched = @ \cup {"primary"}],
                                       "fetch_secondary")]
        /\ TaskGoesOn
        /\ TaskFrame
     \/ /\ task[h].st = "fetch_secondary"
        /\ \E data \in SecondaryPayloads :
             LET t == [task[h] EXCEPT !.fetched = @ \cup {"secondary"},
                                      !.compared = TRUE]
                 verdict == IF compare_block_receipts(task[h].primary_data, data)
                            THEN "matched" ELSE "discrepancy"
             IN task' = [task EXCEPT ![h] =
                           Finished(Logged(t, verdict), verdict, NoError, 0)]
        /\ TaskEnds(h)
        /\ TaskFrame
     \/ /\ task[h].st = "fetch_secondary"
        /\ TaskRaises(h, [task[h] EXCEPT !.fetched = @ \cup {"secondary"},
                                         !.compared = TRUE],
                      CompareError)

\* gevent.sleep(2 ** (retry_count - 1))
BackoffDelayDoubled(retry_count) == 2 ^ retry_count

BackoffDelay(retry_count) == 2 ^ (retry_count - 1)

\* The "except Exception" clause of the retry loop of task h has caught e:
\* count it, keep it, then back off, or log the failure, leave the loop and
\* raise last_error.
CallRaised(h, e) ==
  LET rc == task[h].retry_count + 1
      t == [task[h] EXCEPT !.retry_count = rc,
                           !.last_error = RecordError(task[h].last_error, e),
                           !.kill_pending = FALSE]
  IN IF ShouldBackoff(rc)
     THEN /\ task' = [task EXCEPT ![h] =
                        [t EXCEPT !.st = IF task[h].st = "fetch_primary"
                                         THEN "sleep_primary"
                                         ELSE "sleep_secondary",
                                  !.sleeps = Append(@, BackoffDelay(rc))]]
          /\ TaskGoesOn
          /\ TaskFrame
     ELSE IF LoopContinues(rc)
     THEN /\ task' = [task EXCEPT ![h] = [Logged(t, "fetch_failed")
                                            EXCEPT !.calls = @ + 1]]
          /\ TaskGoesOn
          /\ TaskFrame
     ELSE TaskRaises(h, Logged(t, "fetch_failed"), t.last_error)

\* fetch_func() raised inside _fetch_with_retry.
FetchFailure(h) ==
  /\ MainBlocked
  /\ ~task[h].kill_pending
  /\ task[h].st \in {"fetch_primary", "fetch_secondary"}
  /\ CallRaised(h, FetchError(IF task[h].st = "fetch_primary"
                              THEN "primary" ELSE "secondary",
                              task[h].calls))

\* gevent.sleep(2 ** (retry_count - 1)) is over: the loop condition holds and
\* fetch_func is called again.
SleepDone(h) ==
  /\ MainBlocked
  /\ ~task[h].kill_pending
  /\ task[h].st \in {"sleep_primary", "sleep_secondary"}
  /\ task' = [task EXCEPT ![h].st = IF task[h].st = "sleep_primary"
                                    THEN "fetch_primary" ELSE "fetch_secondary",
                          ![h].calls = @ + 1]
  /\ TaskGoesOn
  /\ TaskFrame

\* "except Exception" catches e: GreenletExit derives from BaseException, not
\* from Exception.
GreenletExitIsAnException(e) == TRUE

IsException(e) == e # GreenletExit

\* GreenletExit is thrown into a killed task at its suspension point. In the
\* hash lookup and in a fetch call it passes an "except Exception" clause
\* first; in a backoff sleep (inside the except clause of the retry loop) it
\* leaves _fetch_with_retry at once. "except GreenletExit" of _process_block
\* logs, the finally clause runs, the greenlet ends.
Killed(h) ==
  /\ MainBlocked
  /\ task[h].kill_pending
  /\ task[h].st # "done"
  /\ IF task[h].st = "hash" /\ IsException(GreenletExit)
     THEN HashLookupFailed(h)
     ELSE IF task[h].st \in {"fetch_primary", "fetch_secondary"}
             /\ IsException(GreenletExit)
     THEN CallRaised(h, GreenletExit)
     ELSE /\ task' = [task EXCEPT ![h] =
                        Finished(Logged(task[h], "killed"), "killed", NoError, 0)]
          /\ TaskEnds(h)
          /\ TaskFrame

TaskStep ==
  \/ \E h \in DOMAIN task : TaskStart(h)
  \/ \E h \in DOMAIN task : HashReply(h)
  \/ \E h \in DOMAIN task : FetchSuccess(h)
  \/ \E h \in DOMAIN task : FetchFailure(h)
  \/ \E h \in DOMAIN task : SleepDone(h)
  \/ \E h \in DOMAIN task : Killed(h)

MainStep ==
  \/ Construct
  \/ StartRun
  \/ LoopCheck
  \/ SpawnBlock
  \/ Spawn
  \/ JoinAll
  \/ DrainEnd

Next ==
  \/ MainStep
  \/ TaskStep
  \/ SIGINT
  \/ default_int_handler
  \/ HandleSIGINT
  \/ UnexpectedError

Spec == Init /\ [][Next]_vars

\* The construction alone, for every (blockchain, protocol) pair.
ConstructionNext ==
  \/ Construct
  \/ SIGINT
  \/ default_int_handler

ConstructionSpec == InitAllPairs /\ [][ConstructionNext]_vars

\* Fairness the scheduling guarantees: the main greenlet runs whenever it can,
\* a pending signal is handled, and what the hub itself drives happens (a
\* spawned greenlet starts, a sleep ends, a kill is delivered). Nothing makes
\* an endpoint answer: HashReply, FetchSuccess and FetchFailure are not fair.
HubStep ==
  \E h \in DOMAIN task : TaskStart(h) \/ SleepDone(h) \/ Killed(h)

FairSpec ==
  /\ Spec
  /\ WF_vars(MainStep)
  /\ WF_vars(HandleSIGINT)
  /\ WF_vars(HubStep)

\* ------------------------------------------------------- the comparators

\* A key a dict does not have.
Absent == "<absent>"

\* A receipt payload is the dict under "data" of the endpoint's answer: {} or
\* {"block": [entry, ...]}, an entry being {"events": [event, ...]} and an
\* event {"id": ..., "valid": ..., "msg": ...} where msg may be missing. A dict
\* is a record of its values plus, for the payload, the set of its keys.
Events == [id : {"a", "b"}, valid : BOOLEAN, msg : {Absent, "m"}]

EventLists == UNION {[1..n -> Events] : n \in 0..MaxEvents}

Entries == [events : EventLists]

Payloads ==
  {[keys |-> {}, block |-> <<>>], [keys |-> {"block"}, block |-> <<>>]}
    \cup {[keys |-> {"block"}, block |-> <<entry>>] : entry \in Entries}

\* COMPARATORS[blockchain][protocol]
get_comparator(b, p) == IF p = "BRC20" THEN "BRC20Comparator" ELSE "OrdinalComparator"

\* The protocol name a comparator puts in its messages.
ProtocolName(comparator) == IF comparator = "BRC20Comparator" THEN "BRC20" ELSE "Ordinal"

RECURSIVE Flatten(_)
Flatten(seqs) == IF seqs = <<>> THEN <<>> ELSE Head(seqs) \o Flatten(Tail(seqs))

\* parse('$.block[*].events[*]').find(data): the list of matches, built before
\* anything is removed; a match holds the event and, as its context, the
\* event list (here the index of the entry that owns the list).
find_events(block) ==
  Flatten([b \in DOMAIN block |->
             [j \in DOMAIN block[b].events |->
                [context |-> b, value |-> block[b].events[j]]]])

\* list.remove(x): the first element equal to x goes.
RemoveFirstEqual(list, x) ==
  LET i == CHOOSE k \in DOMAIN list :
             list[k] = x /\ \A j \in 1..(k - 1) : list[j] # x
  IN SubSeq(list, 1, i - 1) \o SubSeq(list, i + 1, Len(list))

\* for match in matches: if not match.value['valid']:
\*     match.context.value.remove(match.value)
RECURSIVE RemoveMatches(_, _)
RemoveMatches(block, matches) ==
  IF matches = <<>> THEN block
  ELSE LET match == Head(matches)
       IN RemoveMatches(
            IF ~match.value.valid
            THEN [block EXCEPT ![match.context].events =
                                 RemoveFirstEqual(@, match.value)]
            ELSE block,
            Tail(matches))

\* The same loop run over the event list itself instead of the list of
\* matches: after a removal the next element is skipped.
RECURSIVE RemoveWhileIterating(_, _)
RemoveWhileIterating(events, i) ==
  IF i > Len(events) THEN events
  ELSE IF ~events[i].valid
  THEN RemoveWhileIterating(RemoveFirstEqual(events, events[i]), i + 1)
  ELSE RemoveWhileIterating(events, i + 1)

remove_invalid_events_while_iterating(block) ==
  [b \in DOMAIN block |->
     [block[b] EXCEPT !.events = RemoveWhileIterating(@, 1)]]

remove_invalid_events(block) == RemoveMatches(block, find_events(block))

\* for match in parse('$.block[*].events[*].msg').find(data): del the key.
remove_msg_skipped(block) == block

remove_msg(block) ==
  [b \in DOMAIN block |->
     [block[b] EXCEPT !.events =
        [j \in DOMAIN @ |-> [@[j] EXCEPT !.msg = Absent]]]]

\* BRC20Comparator._normalize_data, as a function of the dict's content. A
\* dict without "block" has no match.
BRC20_normalize_data(data) ==
  IF "block" \in data.keys
  THEN [data EXCEPT !.block = remove_msg(remove_invalid_events(@))]
  ELSE data

\* BaseComparator._normalize_data, which OrdinalComparator inherits.
Base_normalize_data(data) == data

\* self._normalize_data(data) on the object ref of the heap: the BRC20
\* comparator edits the object in place; both return the object they got.
normalize_data(comparator, heap, ref) ==
  IF comparator = "BRC20Comparator"
  THEN [heap EXCEPT ![ref] = BRC20_normalize_data(@)]
  ELSE [heap EXCEPT ![ref] = Base_normalize_data(@)]

\* "not data" for a dict.
FalsyOnlyNone(data) == FALSE

Falsy(data) == data.keys = {}

\* DeepDiff(t1, t2) as the sequence of its changes, each a report type and
\* the path it is reported at. Scalars that differ are values_changed, a key
\* of one dict only is dictionary_item_added / _removed, lists of dicts are
\* compared pairwise by index and the surplus of the longer one is
\* iterable_item_added / _removed.
Change(diff_type, path) == [diff_type |-> diff_type, path |-> path]

DiffScalar(path, v1, v2) ==
  IF v1 = v2 THEN <<>> ELSE <<Change("values_changed", path)>>

DiffOptional(path, v1, v2) ==
  IF v1 = v2 THEN <<>>
  ELSE IF v1 = Absent THEN <<Change("dictionary_item_added", path)>>
  ELSE IF v2 = Absent THEN <<Change("dictionary_item_removed", path)>>
  ELSE <<Change("values_changed", path)>>

DiffEvent(path, e1, e2) ==
  DiffScalar(path \o <<"id">>, e1.id, e2.id)
    \o DiffScalar(path \o <<"valid">>, e1.valid, e2.valid)
    \o DiffOptional(path \o <<"msg">>, e1.msg, e2.msg)

Longest(l1, l2) == IF Len(l1) >= Len(l2) THEN Len(l1) ELSE Len(l2)

DiffEvents(path, l1, l2) ==
  Flatten([i \in 1..Longest(l1, l2) |->
     IF i <= Len(l1) /\ i <= Len(l2) THEN DiffEvent(path \o <<i - 1>>, l1[i], l2[i])
     ELSE IF i <= Len(l1) THEN <<Change("iterable_item_removed", path \o <<i - 1>>)>>
     ELSE <<Change("iterable_item_added", path \o <<i - 1>>)>>])

DiffBlock(path, l1, l2) ==
  Flatten([i \in 1..Longest(l1, l2) |->
     IF i <= Len(l1) /\ i <= Len(l2)
     THEN DiffEvents(path \o <<i - 1, "events">>, l1[i].events, l2[i].events)
     ELSE IF i <= Len(l1) THEN <<Change("iterable_item_removed", path \o <<i - 1>>)>>
     ELSE <<Change("iterable_item_added", path \o <<i - 1>>)>>])

DiffTypes ==
  <<"values_changed", "dictionary_item_added", "dictionary_item_removed",
    "iterable_item_added", "iterable_item_removed">>

\* The report groups the changes by type.
DeepDiff(t1, t2) ==
  LET changes ==
        IF "block" \in t1.keys /\ "block" \in t2.keys
        THEN DiffBlock(<<"block">>, t1.block, t2.block)
        ELSE IF "block" \in t1.keys
        THEN <<Change("dictionary_item_removed", <<"block">>)>>
        ELSE IF "block" \in t2.keys
        THEN <<Change("dictionary_item_added", <<"block">>)>>
        ELSE <<>>
  IN Flatten([k \in DOMAIN DiffTypes |->
                SelectSeq(changes, LAMBDA c : c.diff_type = DiffTypes[k])])

\* The messages of the discrepancy list.
Missing(comparator, side) ==
  [kind |-> "missing", side |-> side, protocol |-> ProtocolName(comparator),
   diff_type |-> "", change |-> <<>>]

\* for diff_type, changes in diff.items(): for change in changes: append
FormatOnlyValueChanges(comparator, diff) ==
  [i \in DOMAIN SelectSeq(diff, LAMBDA c : c.diff_type = "values_changed") |->
     [kind |-> "discrepancy", side |-> "", protocol |-> ProtocolName(comparator),
      diff_type |-> "values_changed",
      change |-> SelectSeq(diff, LAMBDA c : c.diff_type = "values_changed")[i].path]]

Format(comparator, diff) ==
  [i \in DOMAIN diff |->
     [kind |-> "discrepancy", side |-> "", protocol |-> ProtocolName(comparator),
      diff_type |-> diff[i].diff_type, change |-> diff[i].path]]

\* The second normalization of compare_block_receipts.
normalize_secondary_forgotten(comparator, heap, ref) == heap

normalize_secondary(comparator, heap, ref) == normalize_data(comparator, heap, ref)

\* compare_block_receipts(primary_data, secondary_data) of either comparator,
\* the arguments being references into heap: the heap it leaves and the
\* tuple it returns.
compare_receipts(comparator, heap, primary_data, secondary_data) ==
  LET heap1 == normalize_data(comparator, heap, primary_data)
      heap2 == normalize_secondary(comparator, heap1, secondary_data)
      primary == heap2[primary_data]
      secondary == heap2[secondary_data]
      diff == DeepDiff(primary, secondary)
  IN [heap |-> heap2,
      result |->
        IF Falsy(primary) /\ Falsy(secondary)
        THEN [matched |-> TRUE, discrepancies |-> <<>>]
        ELSE IF Falsy(primary)
        THEN [matched |-> FALSE,
              discrepancies |-> <<Missing(comparator, "Primary")>>]
        ELSE IF Falsy(secondary)
        THEN [matched |-> FALSE,
              discrepancies |-> <<Missing(comparator, "Secondary")>>]
        ELSE IF diff = <<>>
        THEN [matched |-> TRUE, discrepancies |-> <<>>]
        ELSE [matched |-> FALSE, discrepancies |-> Format(comparator, diff)]]

\* The run is not looked at while one call is followed: its variables stay
\* as main found them, for a comparator the registry holds.
RunAside ==
  /\ pc = "construct"
  /\ exit_code = {}
  /\ main_exc = "None"
  /\ \E pair \in RunPairs : blockchain = pair[1] /\ protocol = pair[2]
  /\ args = ConsumedArgs
  /\ node_info = [primary |-> ConsumedInfo, secondary |-> ConsumedInfo]
  /\ start_block = 0
  /\ end_block = 0
  /\ shutdown_event = FALSE
  /\ is_shutdown_handled = FALSE
  /\ size = 0
  /\ pool = {}
  /\ active_tasks = <<>>
  /\ height = 0
  /\ progress = [n |-> 0, disable |-> TRUE]
  /\ task = <<>>
  /\ log = [interrupt |-> 0, completion |-> 0, blocks_processed |-> 0]
  /\ sigint_pending = FALSE

\* A caller holds two payloads, two objects or twice the same one, and is
\* about to pass them; passed keeps what the objects held at that time.
CompareInit ==
  /\ RunAside
  /\ \E heap \in [{"o1"} -> Payloads] \cup [{"o1", "o2"} -> Payloads] :
       call = [stage |-> "called", heap |-> heap, passed |-> heap,
               primary_data |-> "o1",
               secondary_data |-> IF "o2" \in DOMAIN heap THEN "o2" ELSE "o1",
               result |-> NoResult]

\* The call runs to its return: no greenlet switch happens inside it.
CompareBlockReceipts ==
  /\ call.stage = "called"
  /\ LET r == compare_receipts(get_comparator(blockchain, protocol), call.heap,
                               call.primary_data, call.secondary_data)
     IN call' = [call EXCEPT !.stage = "returned", !.heap = r.heap,
                             !.result = r.result]
  /\ UNCHANGED <<pc, exit_code, main_exc, args, node_info, blockchain, protocol,
                 start_block, end_block, shutdown_event, is_shutdown_handled,
                 size, pool, active_tasks, height, progress, task, log,
                 sigint_pending>>

CompareNext == CompareBlockReceipts

CompareSpec == CompareInit /\ [][CompareNext]_vars

\* ------------------------------------------------------------- the claims

SpawnCount(h) ==
  Cardinality({i \in 1..Len(active_tasks) : active_tasks[i] = h})

\* run() has left its loop and no shutdown was ever requested.
LoopLeftWithoutShutdown ==
  /\ pc \in {"joinall", "exited"}
  /\ main_exc = "None"
  /\ ~shutdown_event

\* C1: no task is spawned for a height outside [start_block, end_block], no
\* height is spawned twice, and when the loop is left in a run without a
\* shutdown signal every height of the range has been spawned exactly once.
C1_OneTaskPerHeight ==
  /\ \A i \in 1..Len(active_tasks) : active_tasks[i] \in start_block..end_block
  /\ \A h \in start_block..end_block : SpawnCount(h) <= 1
  /\ LoopLeftWithoutShutdown =>
       \A h \in start_block..end_block :
         SpawnCount(h) = 1 /\ task[h].st # "unspawned"

\* A run over at least two heights ended normally with no shutdown.
C1_Witness ==
  /\ pc = "exited"
  /\ exit_code = {EXIT_OK}
  /\ ~shutdown_event
  /\ end_block > start_block
  /\ Len(active_tasks) = end_block - start_block + 1

\* Tasks spawned and not yet in a terminal state.
ActiveTasks == {h \in DOMAIN task : task[h].st \notin {"unspawned", "done"}}

\* C2: in every reachable state at most size tasks are spawned and not yet
\* terminal, whatever they are suspended in.
C2_AtMostSizeActive == Cardinality(ActiveTasks) <= size

\* The pool is full, the loop waits for a slot with a height still to submit,
\* and the task holding the slot is in a backoff sleep.
C2_Witness ==
  /\ pc = "spawn_wait"
  /\ Cardinality(ActiveTasks) = size
  /\ \E h \in ActiveTasks : task[h].st \in {"sleep_primary", "sleep_secondary"}

\* C3: once the shutdown flag is set no further task is spawned.
C3_NoSpawnAfterShutdown ==
  [][shutdown_event => active_tasks' = active_tasks]_vars

\* C4: the heights submitted so far are start_block, start_block + 1, ... in
\* that order, with no height skipped.
C4_AscendingPrefix ==
  \A i \in 1..Len(active_tasks) : active_tasks[i] = start_block + i - 1

\* Shutdown cut the submission short: some but not all heights were submitted.
C4_Witness ==
  /\ pc = "exited"
  /\ is_shutdown_handled
  /\ Len(active_tasks) > 0
  /\ Len(active_tasks) < end_block - start_block + 1

\* C5: when the loop stops admitting because of the interrupt and goes on to
\* wait for its tasks, every spawned task that has not terminated has been
\* asked to cancel.
C5_CancelOnInterrupt ==
  [][(pc = "check" /\ is_shutdown_handled /\ pc' # "check")
       => \A h \in SpawnedHeights :
            task'[h].st = "done" \/ task'[h].kill_pending]_vars

\* C6: after shutdown has been requested the run ends, even if an endpoint
\* never answers a task (FetchSuccess, FetchFailure and HashReply are the
\* endpoints' steps and are under no fairness condition: a request whose
\* response is kept open never returns).
C6_BoundedDrain == shutdown_event ~> (pc = "exited")

\* A SIGINT is taken by run's handler in this step.
InterruptHandled ==
  /\ sigint_pending
  /\ ~sigint_pending'
  /\ pc \notin {"construct", "constructed", "exited"}

\* C7: the shutdown flag is never cleared; the first interrupt sets it and is
\* logged once; an interrupt handled after that changes nothing.
C7_FirstInterruptWins ==
  [][/\ shutdown_event => shutdown_event'
     /\ is_shutdown_handled => is_shutdown_handled'
     /\ (InterruptHandled /\ ~is_shutdown_handled)
          => /\ shutdown_event'
             /\ is_shutdown_handled'
             /\ log'.interrupt = 1
     /\ (InterruptHandled /\ is_shutdown_handled) => UNCHANGED progvars]_vars

\* A second interrupt is pending while the run, already shut down by the
\* first, still has a task in flight.
C7_Witness ==
  /\ is_shutdown_handled
  /\ sigint_pending
  /\ pc \notin {"construct", "constructed", "exited"}
  /\ ActiveTasks # {}

\* The interrupt stopped the submission before the range was exhausted.
EndedByInterrupt ==
  /\ is_shutdown_handled
  /\ Len(active_tasks) < end_block - start_block + 1

ExpectedExitCode ==
  IF main_exc \in {"ValueError", "Exception"} THEN EXIT_FATAL
  ELSE IF main_exc = "KeyboardInterrupt" \/ EndedByInterrupt THEN EXIT_SIGINT
  ELSE EXIT_OK

\* C8: the exit code is 1 on a fatal error, 130 when a user interrupt ended
\* the run, 0 on normal completion.
C8_ExitCodes == pc = "exited" => exit_code = {ExpectedExitCode}

\* Task h ends in this step with a failure of its own.
TaskFails(h) ==
  /\ task[h].st # "done"
  /\ task'[h].st = "done"
  /\ task'[h].outcome \in {"hash_failed", "error"}

\* C9: a step in which a task fails changes neither the submission loop nor
\* the shutdown flag nor any other task; and a run that was never shut down
\* leaves its loop with every height spawned and ends with every task
\* terminal, failed tasks or not.
C9_TaskFailureIsLocal ==
  /\ [][\A h \in DOMAIN task :
          TaskFails(h) =>
            /\ UNCHANGED <<pc, height, active_tasks, shutdown_event,
                           is_shutdown_handled, main_exc, exit_code>>
            /\ \A g \in DOMAIN task \ {h} : task'[g] = task[g]]_vars
  /\ [](LoopLeftWithoutShutdown =>
          /\ Len(active_tasks) = end_block - start_block + 1
          /\ pc = "exited" => \A h \in start_block..end_block : task[h].st = "done")

\* With one pool slot, the first height's fetch failed after all its retries,
\* and the next height was still submitted and matched.
C9_Witness ==
  /\ pc = "exited"
  /\ exit_code = {EXIT_OK}
  /\ ~shutdown_event
  /\ size = 1
  /\ end_block > start_block
  /\ task[start_block].outcome = "error"
  /\ task[start_block + 1].outcome = "matched"

\* C10: a fetch whose every call fails is called exactly max_retries times and
\* then raises the error of its last call.
C10_RetryExhaustion ==
  \A h \in DOMAIN task :
    (task[h].outcome = "error" /\ task[h].raised.op \in {"primary", "secondary"}) =>
      /\ task[h].calls = max_retries
      /\ task[h].raised = FetchError(task[h].raised.op, task[h].calls)

\* A secondary fetch was exhausted (after the primary one succeeded).
C10_Witness ==
  \E h \in DOMAIN task :
    /\ task[h].outcome = "error"
    /\ task[h].raised.op = "secondary"

InFetch(t) == t.st \in {"fetch_primary", "fetch_secondary"}

InSleep(t) == t.st \in {"sleep_primary", "sleep_secondary"}

\* A retry loop ended with the error of an exhausted fetch.
FetchExhausted(t) ==
  /\ t.st = "done"
  /\ t.outcome = "error"
  /\ t.raised.op \in {"primary", "secondary"}

\* The backoff sleeps that precede the k-th call: 1, 2, 4, ... seconds.
ExpectedSleeps(k) == [i \in 1..(k - 1) |-> 2 ^ (i - 1)]

\* C11: while the k-th call of a retry loop is in flight, k - 1 calls have
\* failed and k - 1 sleeps of 1, 2, 4, ... seconds have been taken, so a call
\* that succeeds as the k-th was preceded by exactly that; k never exceeds
\* max_retries; a task sleeps only after a call that failed (the i-th sleep
\* after the i-th failure), never after the last allowed call; a loop that
\* failed max_retries times has slept max_retries - 1 times.
C11_BackoffSchedule ==
  \A h \in DOMAIN task :
    /\ InFetch(task[h]) =>
          /\ task[h].calls \in 1..max_retries
          /\ task[h].retry_count = task[h].calls - 1
          /\ task[h].sleeps = ExpectedSleeps(task[h].calls)
    /\ InSleep(task[h]) =>
          /\ task[h].calls \in 1..(max_retries - 1)
          /\ task[h].retry_count = task[h].calls
          /\ task[h].last_error.attempt = task[h].calls
          /\ task[h].sleeps = ExpectedSleeps(task[h].calls + 1)
    /\ FetchExhausted(task[h]) =>
          /\ task[h].calls = max_retries
          /\ task[h].sleeps = ExpectedSleeps(max_retries)

\* One task's primary fetch was exhausted (four sleeps, none after the fifth
\* call); another task's primary fetch has returned and its secondary fetch is
\* in its third call after sleeps of 1 and 2 seconds.
C11_Witness ==
  /\ \E h \in DOMAIN task :
       /\ FetchExhausted(task[h])
       /\ task[h].sleeps = <<1, 2, 4, 8>>
  /\ \E h \in DOMAIN task :
       /\ task[h].st = "fetch_secondary"
       /\ task[h].fetched = {"primary"}
       /\ task[h].calls = 3
       /\ task[h].sleeps = <<1, 2>>

\* C12: the next step of a task whose kill is pending ends it as killed: no
\* further fetch returns, no comparison is run, no verdict is logged and no
\* failure is counted by a retry loop.
C12_CancelledTaskStops ==
  [][\A h \in DOMAIN task :
       (task[h].kill_pending /\ task'[h] # task[h]) =>
         /\ task'[h].st = "done"
         /\ task'[h].outcome = "killed"
         /\ task'[h].logged = task[h].logged \cup {"killed"}
         /\ task'[h].fetched = task[h].fetched
         /\ ~task'[h].compared]_vars

\* A task was killed after its primary fetch had returned, in its secondary
\* fetch or in a backoff sleep of it.
C12_Witness ==
  \E h \in DOMAIN task :
    /\ task[h].outcome = "killed"
    /\ task[h].fetched = {"primary"}

\* C13: the comparison has run only in a task both of whose fetches returned a
\* payload; a verdict is logged only after the comparison; a task one of
\* whose fetches failed after all its retries never runs the comparison; and
\* the secondary fetch is made with the primary payload in hand.
C13_CompareAfterBothFetches ==
  \A h \in DOMAIN task :
    /\ task[h].compared => task[h].fetched = {"primary", "secondary"}
    /\ task[h].logged \cap {"matched", "discrepancy"} # {} => task[h].compared
    /\ "fetch_failed" \in task[h].logged =>
          /\ ~task[h].compared
          /\ task[h].logged \cap {"matched", "discrepancy"} = {}
    /\ task[h].st \in {"fetch_secondary", "sleep_secondary"} =>
          /\ task[h].fetched = {"primary"}
          /\ task[h].primary_data \in PrimaryPayloads

\* One task compared its two payloads and found a discrepancy; in another the
\* primary fetch failed after all retries and nothing was compared.
C13_Witness ==
  /\ \E h \in DOMAIN task :
       /\ task[h].compared
       /\ task[h].outcome = "discrepancy"
  /\ \E h \in DOMAIN task :
       /\ "fetch_failed" \in task[h].logged
       /\ task[h].raised.op = "primary"
       /\ ~task[h].compared

\* C14: a task that logged a failed hash lookup is terminal with that as its
\* only log line: it made the lookup once, no receipt fetch and no comparison.
\* No task makes the lookup twice.
C14_HashFailureEndsTask ==
  \A h \in DOMAIN task :
    /\ task[h].hash_calls <= 1
    /\ "hash_failed" \in task[h].logged =>
          /\ task[h].st = "done"
          /\ task[h].outcome = "hash_failed"
          /\ task[h].hash_calls = 1
          /\ task[h].calls = 0
          /\ task[h].fetched = {}
          /\ ~task[h].compared
          /\ task[h].logged = {"hash_failed"}

\* A run ended normally in which the hash lookup of the first height failed.
C14_Witness ==
  /\ pc = "exited"
  /\ exit_code = {EXIT_OK}
  /\ task[start_block].outcome = "hash_failed"
  /\ task[start_block].hash_calls = 1

\* run() is over: it returned, or it raised after its graceful shutdown.
RunEnded ==
  /\ pc = "exited"
  /\ main_exc \in {"None", "Exception"}

\* C15: when run is over every task it spawned is terminal, whether the whole
\* range was submitted or the submission stopped early.
C15_AllSpawnedTerminal ==
  RunEnded => \A h \in SpawnedHeights : task[h].st = "done"

\* run returned after an interrupt stopped the submission early, with a
\* spawned task that ran to its verdict.
C15_Witness ==
  /\ pc = "exited"
  /\ main_exc = "None"
  /\ EndedByInterrupt
  /\ \E h \in SpawnedHeights : task[h].outcome \in {"matched", "discrepancy"}
  /\ \E h \in DOMAIN task : task[h].st = "unspawned"

\* C16: the number of blocks the completion metrics report is the number of
\* heights whose task reached a terminal state.
C16_MetricsCountTerminalTasks ==
  log.completion > 0 =>
    log.blocks_processed = Cardinality({h \in DOMAIN task : task[h].st = "done"})

\* C17: every run that started processing ends with the completion summary
\* logged exactly once.
C17_SummaryOnce ==
  /\ log.completion <= 1
  /\ RunEnded => log.completion = 1

\* The constructor has resolved the block range: it returned, or it raised on
\* the range check.
RangeResolved ==
  \/ pc = "constructed"
  \/ pc = "exited" /\ main_exc = "ValueError" /\ end_block < start_block

\* The activation heights as the specification lists them.
ActivationHeight(b, p) ==
  IF b = "BITCOIN" /\ p = "ORDINAL" THEN 767430
  ELSE IF b = "BITCOIN" /\ p = "BRC20" THEN 779832
  ELSE 21000

\* min of the two endpoints' latest heights, from the node info as reported.
MinLatest ==
  IF node_info.primary.ordBlockHeight < node_info.secondary.ordBlockHeight
  THEN node_info.primary.ordBlockHeight
  ELSE node_info.secondary.ordBlockHeight

\* C18: with neither --start-block nor --end-block given, the resolved range
\* starts at the activation height of the (blockchain, protocol) pair and ends
\* at the minimum of the two endpoints' latest heights.
C18_DefaultRange ==
  (RangeResolved /\ args.start_block = None /\ args.end_block = None) =>
    /\ start_block = ActivationHeight(blockchain, protocol)
    /\ end_block = MinLatest

\* BITCOIN/BRC20 constructed with no range given, the endpoints at different
\* heights.
C18_Witness ==
  /\ pc = "constructed"
  /\ args.start_block = None
  /\ args.end_block = None
  /\ blockchain = "BITCOIN"
  /\ protocol = "BRC20"
  /\ node_info.primary.ordBlockHeight > node_info.secondary.ordBlockHeight
  /\ end_block = node_info.secondary.ordBlockHeight

\* C19: the resolved end is the user's value when that is strictly less than
\* the minimum of the endpoints' latest heights, and that minimum otherwise;
\* it never exceeds the minimum.
C19_ResolvedEnd ==
  RangeResolved =>
    /\ (args.end_block # None /\ args.end_block[1] < MinLatest)
          => end_block = args.end_block[1]
    /\ (args.end_block = None \/ args.end_block[1] >= MinLatest)
          => end_block = MinLatest
    /\ end_block <= MinLatest

\* A user end above what both endpoints have indexed was cut down to the
\* minimum.
C19_Witness ==
  /\ pc = "constructed"
  /\ args.end_block # None
  /\ args.end_block[1] > MinLatest
  /\ end_block = MinLatest

\* C20: a resolved range with end < start makes the constructor fail with a
\* ValueError, and then no task is ever spawned; a comparator that was
\* constructed has end_block >= start_block.
C20_RangeValidity ==
  /\ end_block < start_block =>
       /\ pc = "exited"
       /\ main_exc = "ValueError"
       /\ exit_code = {EXIT_FATAL}
  /\ main_exc = "ValueError" =>
       /\ active_tasks = <<>>
       /\ pool = {}
       /\ task = <<>>
  /\ pc \in {"constructed", "check", "spawn", "spawn_wait", "joinall", "drain"}
       => end_block >= start_block

\* The user's start lies above the resolved end: the constructor failed.
C20_Witness ==
  /\ pc = "exited"
  /\ main_exc = "ValueError"
  /\ end_block < start_block
  /\ args.start_block # None
  /\ args.start_block[1] > end_block

\* ------------------------------------------------------------ C21

\* The network name the client hands to the constructor for one endpoint.
ReportedNetwork(side) == get_node_info(node_info[side]).network

\* The constructor has returned or raised, and main has not gone further.
ConstructionOver ==
  \/ pc = "constructed"
  \/ pc = "exited" /\ main_exc = "ValueError"

\* C21: when the network name the client reports for either endpoint is not
\* the lowercase name of the blockchain, the constructor raises ValueError
\* (exit code 1) with the range still unresolved, and no task exists, no
\* block hash was looked up and no receipt was fetched.
C21_NetworkMismatchAborts ==
  (/\ ConstructionOver
   /\ \E side \in {"primary", "secondary"} :
        ReportedNetwork(side) # expected_network(blockchain))
  => /\ pc = "exited"
     /\ main_exc = "ValueError"
     /\ exit_code = {EXIT_FATAL}
     /\ start_block = 0
     /\ end_block = 0
     /\ task = <<>>
     /\ active_tasks = <<>>
     /\ pool = {}

C21_Witness ==
  /\ pc = "exited"
  /\ main_exc = "ValueError"
  /\ blockchain = "BITCOIN"
  /\ node_info.primary.network = "mainnet"
  /\ ReportedNetwork("primary") = expected_network(blockchain)
  /\ ReportedNetwork("secondary") # expected_network(blockchain)
  /\ start_block = 0
  /\ task = <<>>

\* ------------------------------------------------------------ C28

\* The tasks that become terminal in a step.
NewlyDone == {h \in DOMAIN task : task[h].st # "done" /\ task'[h].st = "done"}

\* C28: the progress counter never decreases and moves by one at a time, only
\* in a step in which one task becomes terminal (and terminal tasks stay
\* terminal, so no task counts twice) and only while the shutdown flag is
\* clear; it never exceeds the number of heights submitted so far.
C28_ProgressCounter ==
  [][/\ progress'.n \in {progress.n, progress.n + 1}
     /\ progress'.n = progress.n + 1
          => Cardinality(NewlyDone) = 1 /\ ~shutdown_event
     /\ shutdown_event => progress'.n = progress.n
     /\ \A h \in DOMAIN task : task[h].st = "done" => task'[h].st = "done"
     /\ progress'.n <= Len(active_tasks')]_vars

\* A task ran to its end while the bar was still open and did not count:
\* the flag was set when its finally clause ran.
C28_Witness ==
  /\ shutdown_event
  /\ ~progress.disable
  /\ progress.n = 0
  /\ \E h \in DOMAIN task : task[h].st = "done" /\ task[h].outcome = "matched"

\* ------------------------------------------------------------ C29

\* The position of a task in _process_block: not started, in the hash lookup,
\* in the retry loop of the primary fetch, in that of the secondary, ended.
Phase(st) ==
  IF st \in {"unspawned", "spawned"} THEN 0
  ELSE IF st = "hash" THEN 1
  ELSE IF st \in {"fetch_primary", "sleep_primary"} THEN 2
  ELSE IF st \in {"fetch_secondary", "sleep_secondary"} THEN 3
  ELSE 4

\* What holds of task h at each position: one hash lookup at most, no fetch
\* before the hash is known, every fetch for the hash the primary returned
\* and sent to the endpoint of its loop, at most max_retries calls per loop,
\* the secondary loop only after a successful primary fetch.
CallDiscipline(h, t) ==
  LET ph == Phase(t.st)
  IN CASE ph = 0 ->
            /\ t.hash_calls = 0
            /\ t.calls = 0 /\ t.request = NoRequest /\ t.fetched = {}
       [] ph = 1 ->
            /\ t.hash_calls = 1
            /\ t.calls = 0 /\ t.request = NoRequest /\ t.fetched = {}
       [] ph = 2 ->
            /\ t.hash_calls = 1
            /\ t.request = [endpoint |-> "primary", block_hash |-> BlockHash(h)]
            /\ t.calls \in 1..max_retries
            /\ t.fetched = {}
       [] ph = 3 ->
            /\ t.hash_calls = 1
            /\ t.request = [endpoint |-> "secondary", block_hash |-> BlockHash(h)]
            /\ t.calls \in 1..max_retries
            /\ t.fetched = {"primary"}
       [] OTHER ->
            /\ t.hash_calls = (IF t.outcome = "killed_before_start" THEN 0 ELSE 1)
            /\ t.raised.op = "primary"
                 => t.fetched = {} /\ ~t.compared /\ t.calls = max_retries

\* C29: every task goes through hash lookup, primary loop, secondary loop in
\* that order, each at most once (1 + 2 * max_retries calls at most); each
\* loop starts its own count at 1; the secondary loop is entered only from a
\* primary call that returned data, so not after the primary loop gave up.
C29_CallOrderAndBudgets ==
  [][\A h \in DOMAIN task :
       task'[h] # task[h] =>
         LET a == task[h]
             b == task'[h]
             pa == Phase(a.st)
             pb == Phase(b.st)
         IN /\ pa <= pb
            /\ pb \in 1..3 => pb - pa \in {0, 1}
            /\ CallDiscipline(h, b)
            /\ pb \in {2, 3} =>
                 IF pa = pb
                 THEN b.calls \in {a.calls, a.calls + 1}
                 ELSE b.calls = 1 /\ b.retry_count = 0 /\ b.last_error = NoError
            /\ (pa = 2 /\ pb = 3) => a.st = "fetch_primary"]_vars

\* The secondary fetch is at its last attempt, for the hash of its height.
C29_Witness ==
  \E h \in DOMAIN task :
    /\ task[h].st = "fetch_secondary"
    /\ task[h].calls = max_retries
    /\ task[h].hash_calls = 1
    /\ task[h].request = [endpoint |-> "secondary", block_hash |-> BlockHash(h)]

\* ------------------------------------------------------------ C22 - C27

\* The call has returned.
Returned == call.stage = "returned"

\* What the caller passed as primary and as secondary payload.
PassedPrimary == call.passed[call.primary_data]

PassedSecondary == call.passed[call.secondary_data]

\* C22: whatever the two payloads and whichever comparator, the tuple
\* returned has matched = TRUE exactly when its discrepancy list is empty.
C22_MatchedIffNoDiscrepancy ==
  Returned => (call.result.matched <=> call.result.discrepancies = <<>>)

\* Two payloads that differ in several places: several messages, no match.
C22_Witness ==
  /\ Returned
  /\ ~call.result.matched
  /\ Len(call.result.discrepancies) >= 2
  /\ \E i \in DOMAIN call.result.discrepancies :
       call.result.discrepancies[i].diff_type = "iterable_item_added"

\* C23: {} against a non-empty payload gives (False, [one message naming the
\* primary as missing]); a non-empty payload against {} gives (False, [one
\* message naming the secondary]); {} against {} gives (True, []).
C23_MissingData ==
  Returned =>
    /\ (PassedPrimary.keys = {} /\ PassedSecondary.keys # {})
         => /\ ~call.result.matched
            /\ Len(call.result.discrepancies) = 1
            /\ call.result.discrepancies[1].kind = "missing"
            /\ call.result.discrepancies[1].side = "Primary"
            /\ call.result.discrepancies[1].protocol
                 = (IF protocol = "BRC20" THEN "BRC20" ELSE "Ordinal")
    /\ (PassedPrimary.keys # {} /\ PassedSecondary.keys = {})
         => /\ ~call.result.matched
            /\ Len(call.result.discrepancies) = 1
            /\ call.result.discrepancies[1].kind = "missing"
            /\ call.result.discrepancies[1].side = "Secondary"
            /\ call.result.discrepancies[1].protocol
                 = (IF protocol = "BRC20" THEN "BRC20" ELSE "Ordinal")
    /\ (PassedPrimary.keys = {} /\ PassedSecondary.keys = {})
         => call.result = [matched |-> TRUE, discrepancies |-> <<>>]

\* The BRC20 comparator got {} and a payload with an event.
C23_Witness ==
  /\ Returned
  /\ protocol = "BRC20"
  /\ PassedPrimary.keys = {}
  /\ PassedSecondary.keys = {"block"}
  /\ Len(PassedSecondary.block) = 1
  /\ Len(PassedSecondary.block[1].events) > 0
  /\ Len(call.result.discrepancies) = 1

\* C24: a payload compared with itself, passed as one object twice or as two
\* objects of equal content, matches with no discrepancy.
C24_EqualInputsMatch ==
  (Returned /\ PassedPrimary = PassedSecondary)
    => call.result = [matched |-> TRUE, discrepancies |-> <<>>]

\* Two objects of equal content, holding an invalid event with a msg, given
\* to the BRC20 comparator.
C24_Witness ==
  /\ Returned
  /\ protocol = "BRC20"
  /\ call.primary_data # call.secondary_data
  /\ PassedPrimary = PassedSecondary
  /\ PassedPrimary.keys = {"block"}
  /\ \E b \in DOMAIN PassedPrimary.block :
       \E j \in DOMAIN PassedPrimary.block[b].events :
         /\ ~PassedPrimary.block[b].events[j].valid
         /\ PassedPrimary.block[b].events[j].msg # Absent
  /\ call.result.matched

\* Every event of a payload satisfies P.
AllEvents(data, P(_)) ==
  \A b \in DOMAIN data.block : \A j \in DOMAIN data.block[b].events :
    P(data.block[b].events[j])

\* C25: what BRC20 _normalize_data returned for a payload (the object it was
\* given, after the call) is left as it is by a second _normalize_data, and
\* holds no event with valid = False and no event with a msg key.
C25_NormalizationIdempotent ==
  (Returned /\ protocol = "BRC20") =>
    \A ref \in DOMAIN call.heap :
      LET normalized == call.heap[ref]
      IN /\ BRC20_normalize_data(normalized) = normalized
         /\ AllEvents(normalized, LAMBDA e : e.valid)
         /\ AllEvents(normalized, LAMBDA e : e.msg = Absent)

\* A payload with two equal invalid events in a row and a valid one carrying
\* a msg has been normalized.
C25_Witness ==
  /\ Returned
  /\ protocol = "BRC20"
  /\ PassedPrimary.keys = {"block"}
  /\ Len(PassedPrimary.block) = 1
  /\ Len(PassedPrimary.block[1].events) = 2
  /\ ~PassedPrimary.block[1].events[1].valid
  /\ PassedPrimary.block[1].events[1] = PassedPrimary.block[1].events[2]
  /\ PassedSecondary.keys = {"block"}
  /\ Len(PassedSecondary.block) = 1
  /\ \E j \in DOMAIN PassedSecondary.block[1].events :
       /\ PassedSecondary.block[1].events[j].valid
       /\ PassedSecondary.block[1].events[j].msg # Absent
  /\ call.heap[call.primary_data].block[1].events = <<>>

\* The list without the elements at the indices in D.
RECURSIVE Drop(_, _, _)
Drop(list, D, i) ==
  IF i > Len(list) THEN <<>>
  ELSE (IF i \in D THEN <<>> ELSE <<list[i]>>) \o Drop(list, D, i + 1)

\* The secondary list is the primary one without some of its invalid events.
OmitsInvalidEvents(primary_events, secondary_events) ==
  \E D \in SUBSET {i \in DOMAIN primary_events : ~primary_events[i].valid} :
    Drop(primary_events, D, 1) = secondary_events

\* The two payloads are the same but for invalid events only the primary has.
ExtraInvalidOnPrimary ==
  /\ PassedPrimary.keys = {"block"}
  /\ PassedSecondary.keys = {"block"}
  /\ Len(PassedPrimary.block) = Len(PassedSecondary.block)
  /\ \A b \in DOMAIN PassedPrimary.block :
       OmitsInvalidEvents(PassedPrimary.block[b].events,
                          PassedSecondary.block[b].events)
  /\ PassedPrimary # PassedSecondary

\* C26: when the primary BRC20 payload is the secondary one plus events with
\* valid = False, wherever they stand in the event lists, the comparator
\* returns matched = TRUE.
C26_InvalidEventsIgnored ==
  (Returned /\ protocol = "BRC20" /\ ExtraInvalidOnPrimary)
    => call.result.matched

\* The extra invalid event stands before a valid one both payloads have.
C26_Witness ==
  /\ Returned
  /\ protocol = "BRC20"
  /\ ExtraInvalidOnPrimary
  /\ Len(PassedPrimary.block[1].events) = 2
  /\ ~PassedPrimary.block[1].events[1].valid
  /\ PassedPrimary.block[1].events[2].valid
  /\ Len(PassedSecondary.block[1].events) = 1
  /\ call.result.matched

\* C27: after the call the objects the caller passed hold what they held
\* when they were passed.
C27_NormalizationPure ==
  Returned => call.heap = call.passed

====
